---- MODULE Spec2Model ----
(***************************************************************************)
(* The streaming client of chat-app: the tool-based ChatApp of             *)
(* src/static/js/main.js (lines 428-1034).  One ChatApp instance is bound  *)
(* to the page; every non-empty handleSendMessage opens an EventSource     *)
(* whose listeners fold the frames of the turn into the answer area        *)
(* (this.answerContent), the reference area (this.referenceCards) and the  *)
(* answer buffer (this.currentAnswer).                                     *)
(*                                                                         *)
(* The first ChatApp of the same file (lines 1-426) speaks the older tag   *)
(* set (search_results, search_result_update).  It shares handleSendMessage,*)
(* updateAnswer, showError and onerror with the tool-based one, text for   *)
(* text; what differs is modelled in the definitions whose names end in    *)
(* _R1.  The search-toggle ChatApp of src/unnamed/part_002 is modelled in   *)
(* the definitions whose names end in _R3; its updateAnswer and showError  *)
(* are those of main.js, text for text.  A run is a run of one of the      *)
(* three.                                                                  *)
(*                                                                         *)
(* The DOM is modelled structurally: an area is the sequence of its child  *)
(* elements, an element a record with its class and its text.  Texts the   *)
(* source writes in Chinese are written here in ASCII.  Style (opacity     *)
(* transitions, scrollTop) and console output are left out.  None of the   *)
(* handlers throws on the payloads modelled, so the listeners' catch       *)
(* blocks never run.                                                       *)
(***************************************************************************)
EXTENDS Integers, Sequences, FiniteSets, TLC

(* ------------------------------ bounds -------------------------------- *)

\* Non-empty submissions (turns); each opens at most one EventSource.
MaxTurns == 2
\* Submissions, frames and transport errors that happen in one run.
MaxSteps == 5
\* The same for a run whose backend follows a script.
MaxScriptSteps == 6
\* The longest text truncateContent is tried on, character by character.
MaxContentLen == 4

VARIABLES
    profile,            \* the frames the backend of this run emits (fixed)
    toolOptions,        \* this.toolOptions: "undefined" until loadAvailableTools has set it
    currentAnswer,      \* this.currentAnswer
    answerContent,      \* children of .answer-content
    referenceCards,     \* children of .reference-cards
    referencesVisible,  \* .references has class "visible"
    progressVisible,    \* .progress-container has class "visible"
    progressPct,        \* the percentage written to .progress-bar / .progress-text
    timers,             \* pending staggered setTimeout callbacks, one entry per batch
    readyState,         \* readyState of the EventSource of each turn ("none": never created)
    turns,              \* number of non-empty handleSendMessage calls so far
    errorEvent,         \* stream whose error event is being dispatched (0: none)
    steps,              \* submissions, frames and transport errors so far
    phase,              \* history: per stream, what its frames have signalled so far
    fragments,          \* history: fragments handed to updateAnswer since the last reset
    batch,              \* history: links of the result batch processed last
    requestTime,        \* per turn, the Date.now() reading its request_id was made of (0: no request)
    cursor,             \* per stream of a scripted run, the frames its backend has emitted
    searchToggle,       \* #useSearch is checked (search-toggle ChatApp)
    last                \* history: the step taken last

vars == <<profile, toolOptions, currentAnswer, answerContent, referenceCards, referencesVisible,
          progressVisible, progressPct, timers, readyState, turns, errorEvent, steps,
          phase, fragments, batch, requestTime, cursor, searchToggle, last>>

Streams == 1..MaxTurns

(* --------------------------- JavaScript values ------------------------- *)

\* The value of a property that is absent (undefined).
Undef == "\\undefined"

\* data.f of a parsed object, undefined when the property is absent.
Get(d, f) == IF f \in DOMAIN d THEN d[f] ELSE Undef

\* Truthiness of a string-or-undefined value: '' and undefined are falsy.
TruthyStr(v) == v # Undef /\ v # ""

\* A JavaScript string handed where an object is expected: s.error is undefined.
JsString(s) == [jsString |-> s]

\* data.f for data that may be a plain string.
Prop(data, f) == IF "jsString" \in DOMAIN data THEN Undef ELSE Get(data, f)

(* ------------------------------ DOM helpers ---------------------------- *)

\* querySelector('.cls'): index of the first child of that class, 0 if none.
QuerySelector(area, cls) ==
    IF \E i \in 1..Len(area) : area[i].cls = cls
    THEN CHOOSE i \in 1..Len(area) :
            /\ area[i].cls = cls
            /\ \A j \in 1..(i - 1) : area[j].cls # cls
    ELSE 0

\* element.remove()
RemoveAt(area, i) == SubSeq(area, 1, i - 1) \o SubSeq(area, i + 1, Len(area))

\* querySelector('.ai-message:last-child'): the last child, if it is an answer block.
LastAiMessage(area) ==
    IF Len(area) > 0 /\ area[Len(area)].cls = "ai-message" THEN Len(area) ELSE 0

\* showdown's converter.makeHtml: the markdown source wrapped in a paragraph.
makeHtml(md) == "<p>" \o md \o "</p>"

DefaultMaxLength == 300

\* A truncateContent that puts the marker before the characters it keeps.
truncateContent_MarkerFirst(content, maxLength) ==
    IF ~TruthyStr(content) THEN ""
    ELSE IF Len(content) > maxLength
         THEN "..." \o SubSeq(content, 1, maxLength)
         ELSE content

\* A truncateContent that also cuts a text of exactly maxLength characters.
truncateContent_OffByOne(content, maxLength) ==
    IF ~TruthyStr(content) THEN ""
    ELSE IF Len(content) >= maxLength
         THEN SubSeq(content, 1, maxLength) \o "..."
         ELSE content

\* truncateContent(content, maxLength = 300)
truncateContent(content, maxLength) ==
    IF ~TruthyStr(content) THEN ""
    ELSE IF Len(content) > maxLength
         THEN SubSeq(content, 1, maxLength) \o "..."
         ELSE content

(* ------------------------------ elements ------------------------------- *)

\* An element of the answer area with a class and a text.
El(cls, text) == [cls |-> cls, text |-> text]

\* textContent = v: undefined is written as the empty text.
TextOf(v) == IF v = Undef THEN "" ELSE v

\* The application state the handlers read and write.
App == [currentAnswer |-> currentAnswer, answerContent |-> answerContent,
        referenceCards |-> referenceCards, referencesVisible |-> referencesVisible,
        progressVisible |-> progressVisible, progressPct |-> progressPct,
        timers |-> timers]

(* ------------------------------ showError ------------------------------ *)

\* The error element showError builds: data.error || 'error occurred', with
\* the details line when data.details is truthy.
errorDiv(data) ==
    [cls |-> "error",
     text |-> IF TruthyStr(Prop(data, "error")) THEN Prop(data, "error") ELSE "error occurred",
     details |-> IF TruthyStr(Prop(data, "details")) THEN Prop(data, "details") ELSE ""]

\* A showError that always appends the error element.
placeError_Append(area, div) == Append(area, div)

\* If the last child is an answer block, replace it; otherwise append.
placeError(area, div) ==
    IF LastAiMessage(area) # 0
    THEN [area EXCEPT ![LastAiMessage(area)] = div]
    ELSE Append(area, div)

showError(a, data) ==
    LET i == QuerySelector(a.answerContent, "loading")
        ac == IF i # 0 THEN RemoveAt(a.answerContent, i) ELSE a.answerContent
    IN  [a EXCEPT !.answerContent = placeError(ac, errorDiv(data))]

(* ----------------------------- updateAnswer ---------------------------- *)

\* An accumulation that puts the newest fragment first.
appendContent_Prepend(answer, content) == content \o answer

\* An accumulation that keeps only the newest fragment.
appendContent_Overwrite(answer, content) == content

\* this.currentAnswer += data.content
appendContent(answer, content) == answer \o content

\* A test that takes no answer payload for an error payload.
isErrorPayload_Never(data) == FALSE

\* data.status === 'error'
isErrorPayload(data) == Get(data, "status") = "error"

updateAnswer(a, data) ==
    IF isErrorPayload(data) THEN showError(a, data)
    ELSE
        LET i == QuerySelector(a.answerContent, "loading")
            \* first fragment: drop the indicator, create the answer block
            ac == IF i # 0
                  THEN Append(RemoveAt(a.answerContent, i), El("ai-message", ""))
                  ELSE a.answerContent
        IN  IF TruthyStr(Get(data, "content"))
            THEN LET answer == appendContent(a.currentAnswer, Get(data, "content"))
                     k == LastAiMessage(ac)
                 IN  [a EXCEPT !.currentAnswer = answer,
                               !.answerContent =
                                    IF k # 0 THEN [ac EXCEPT ![k].text = makeHtml(answer)]
                                    ELSE ac]
            ELSE [a EXCEPT !.answerContent = ac]

(* ----------------------------- updateStatus ---------------------------- *)

\* Math.round(progress * 100), progress given in thousandths.
roundPercent(progress) == (progress + 5) \div 10

\* referenceCards.querySelector('.loading') text update, when it exists.
setCardsLoading(cards, text) ==
    LET i == QuerySelector(cards, "loading")
    IN  IF i # 0 THEN [cards EXCEPT ![i].text = text] ELSE cards

\* referenceCards.querySelector('.loading')?.remove()
removeCardsLoading(cards) ==
    LET i == QuerySelector(cards, "loading")
    IN  IF i # 0 THEN RemoveAt(cards, i) ELSE cards

updateStatus(a, data) ==
    LET i0 == QuerySelector(a.answerContent, "loading")
        ac == IF i0 = 0 THEN Append(a.answerContent, El("loading", ""))
              ELSE a.answerContent
        i == QuerySelector(ac, "loading")     \* statusElement
        status == Get(data, "status")
        message == TextOf(Get(data, "message"))
    IN  CASE status = "searching" ->
                [a EXCEPT !.referenceCards = <<El("loading", "searching")>>,
                          !.referencesVisible = TRUE,
                          !.answerContent = [ac EXCEPT ![i].text = "searching"],
                          !.progressVisible = FALSE]
          [] status = "fetch_start" ->
                [a EXCEPT !.progressVisible = TRUE,
                          !.progressPct = 0,
                          !.referenceCards = setCardsLoading(@, message),
                          !.answerContent = [ac EXCEPT ![i].text = message]]
          [] status = "fetch_progress" ->
                [a EXCEPT !.progressPct =
                                IF "progress" \in DOMAIN data /\ data.progress # 0
                                THEN roundPercent(data.progress) ELSE @,
                          !.referenceCards = setCardsLoading(@, message),
                          !.answerContent = [ac EXCEPT ![i].text = message]]
          [] status = "fetch_completed" ->
                [a EXCEPT !.referenceCards = removeCardsLoading(@),
                          !.answerContent = [ac EXCEPT ![i].text = "organizing"]]
          [] status = "generating" ->
                [a EXCEPT !.referenceCards = removeCardsLoading(@),
                          !.answerContent = [ac EXCEPT ![i].text = "generating"]]
          [] status = "completed" ->
                [a EXCEPT !.answerContent = RemoveAt(ac, i)]
          [] OTHER ->
                [a EXCEPT !.answerContent = ac]

(* ------------------------------ tool results --------------------------- *)

GenericMaxLength == 1000

\* A JavaScript array of result objects / a JavaScript string as data.result.
JsArray(items) == [t |-> "array", items |-> items]
JsText(text) == [t |-> "string", s |-> text]

\* Array.isArray(results)
IsArray(v) == v.t = "array"

\* data.result is truthy: every array is, a string unless it is empty.
TruthyResult(data) ==
    /\ "result" \in DOMAIN data
    /\ ~(data.result.t = "string" /\ data.result.s = "")

\* results.forEach((result, index) => setTimeout(..., index * 100)): the
\* callbacks of one batch still to run, with the index of the first of them.
Batch(kind, items) == [kind |-> kind, index |-> 0, items |-> items]

handleSearchResults(a, results) ==
    IF ~IsArray(results) \/ Len(results.items) = 0
    THEN [a EXCEPT !.referenceCards = <<El("no-results", "no search results")>>,
                   !.referencesVisible = FALSE]
    ELSE [a EXCEPT !.referenceCards = <<>>,
                   !.referencesVisible = TRUE,
                   !.timers = Append(@, Batch("result", results.items))]

handleArxivResults(a, papers) ==
    IF ~IsArray(papers) \/ Len(papers.items) = 0
    THEN [a EXCEPT !.referenceCards = <<El("no-results", "no papers")>>,
                   !.referencesVisible = FALSE]
    ELSE [a EXCEPT !.referenceCards = <<>>,
                   !.referencesVisible = TRUE,
                   !.timers = Append(@, Batch("paper", papers.items))]

\* The card a staggered callback of handleSearchResults / handleArxivResults /
\* updateSearchResults builds; updateSearchResults lays an entry out as a
\* paper when result.isArxiv is set.  The search-toggle ChatApp builds a
\* "snippet": content untruncated, and no link for an answer box.
Card(kind, index, r) ==
    IF kind = "entry" /\ "isArxiv" \in DOMAIN r /\ r.isArxiv
    THEN [cls |-> "reference-card", id |-> "result-" \o ToString(index),
          link |-> Get(r, "link"),
          title |-> IF TruthyStr(Get(r, "title")) THEN r.title ELSE "untitled",
          authors |-> IF TruthyStr(Get(r, "authors")) THEN r.authors ELSE "unknown authors",
          content |-> LET text == IF TruthyStr(Get(r, "abstract")) THEN r.abstract
                                  ELSE Get(r, "content")
                      IN  IF truncateContent(text, DefaultMaxLength) # ""
                          THEN truncateContent(text, DefaultMaxLength)
                          ELSE "no content",
          date |-> IF TruthyStr(Get(r, "submitted")) THEN r.submitted ELSE "unknown date"]
    ELSE IF kind = "snippet"
    THEN [cls |-> "reference-card", id |-> "result-" \o ToString(index),
          link |-> IF "isAnswerBox" \in DOMAIN r /\ r.isAnswerBox THEN Undef
                   ELSE Get(r, "link"),
          title |-> IF TruthyStr(Get(r, "title")) THEN r.title ELSE "untitled",
          content |-> IF TruthyStr(Get(r, "content")) THEN r.content ELSE "no content"]
    ELSE IF kind = "paper"
    THEN [cls |-> "reference-card", id |-> "paper-" \o ToString(index),
          link |-> Get(r, "link"),
          title |-> IF TruthyStr(Get(r, "title")) THEN r.title ELSE "untitled",
          authors |-> IF TruthyStr(Get(r, "authors")) THEN r.authors ELSE "unknown authors",
          content |-> IF truncateContent(Get(r, "content"), DefaultMaxLength) # ""
                      THEN truncateContent(Get(r, "content"), DefaultMaxLength)
                      ELSE "no content",
          date |-> IF TruthyStr(Get(r, "submitted")) THEN r.submitted ELSE "unknown date"]
    ELSE [cls |-> "reference-card", id |-> "result-" \o ToString(index),
          link |-> Get(r, "link"),
          title |-> IF TruthyStr(Get(r, "title")) THEN r.title ELSE "untitled",
          content |-> IF truncateContent(Get(r, "content"), DefaultMaxLength) # ""
                      THEN truncateContent(Get(r, "content"), DefaultMaxLength)
                      ELSE "no content",
          date |-> IF TruthyStr(Get(r, "date")) THEN r.date ELSE ""]

\* The text of a generic tool's result: data.result.toString() for a string
\* (the generic tools of the frames below answer with strings).
resultContent(result) == IF result.t = "string" THEN result.s ELSE "[object]"

\* A handler that renders every tool's result as a search batch.
handleToolResult_NoDemux(a, data) ==
    IF TruthyStr(Get(data, "tool_name")) /\ TruthyResult(data)
    THEN handleSearchResults(a, data.result)
    ELSE a

\* A handler that adds to what the reference area holds, whatever the tool.
handleToolResult_KeepCards(a, data) ==
    IF TruthyStr(Get(data, "tool_name")) /\ TruthyResult(data)
    THEN IF data.tool_name \in {"search_web", "search_arxiv"}
         THEN [a EXCEPT !.referencesVisible = TRUE,
                        !.timers = Append(@, Batch(IF data.tool_name = "search_web"
                                                   THEN "result" ELSE "paper",
                                                   data.result.items))]
         ELSE [a EXCEPT !.referenceCards =
                            Append(@, [cls |-> "tool-result-card",
                                       title |-> data.tool_name,
                                       text |-> truncateContent(resultContent(data.result),
                                                                GenericMaxLength),
                                       message |-> ""]),
                        !.referencesVisible = TRUE]
    ELSE a

handleToolResult(a, data) ==
    IF TruthyStr(Get(data, "tool_name")) /\ TruthyResult(data)
    THEN CASE data.tool_name = "search_web" -> handleSearchResults(a, data.result)
           [] data.tool_name = "search_arxiv" -> handleArxivResults(a, data.result)
           [] OTHER ->
                LET resultElement ==
                        [cls |-> "tool-result-card",
                         title |-> data.tool_name,
                         text |-> truncateContent(resultContent(data.result), GenericMaxLength),
                         message |-> IF TruthyStr(Get(data, "message")) THEN data.message ELSE ""]
                    \* the first tool result clears what the area holds
                    cards == IF QuerySelector(a.referenceCards, "tool-result-card") = 0
                             THEN <<>> ELSE a.referenceCards
                IN  [a EXCEPT !.referenceCards = Append(cards, resultElement),
                              !.referencesVisible = TRUE]
    ELSE a

(* ----------------------------- the dispatcher -------------------------- *)

\* A frame's payload as it is on the wire: the text of event.data.  "object"
\* payloads carry the object their text denotes.
RawEmpty == [raw |-> ""]
RawBlank == [raw |-> "  "]
RawBrace == [raw |-> "{"]
RawNull == [raw |-> "null"]
RawNumber == [raw |-> "42"]
RawObject(obj) == [raw |-> "object", obj |-> obj]

Malformed == {RawEmpty, RawBlank, RawBrace, RawNull, RawNumber}

\* !event.data
isEmptyData(data) == data.raw = ""

\* event.data.trim() === ''
isBlankData(data) == data.raw \in {"", "  "}

\* JSON.parse(event.data): the value, or the SyntaxError it throws.
JSONparse(data) ==
    CASE data.raw \in {"", "  ", "{"} -> [threw |-> TRUE]
      [] data.raw = "null" -> [threw |-> FALSE, t |-> "null"]
      [] data.raw = "42" -> [threw |-> FALSE, t |-> "number"]
      [] OTHER -> [threw |-> FALSE, t |-> "object", obj |-> data.obj]

\* What the outer catch of handleEventData shows for a SyntaxError.
SyntaxErrorShown == [error |-> "invalid response format", details |-> "invalid data format"]

\* A parse failure that reaches the outer catch of handleEventData.
onParseError_Outer(a) == showError(a, SyntaxErrorShown)

\* catch (parseError) { console.error(...); return; }
onParseError(a) == a

\* !(!data || typeof data !== 'object')
isObject(v) == v.t = "object"

\* An unknown event type that ends in the outer catch of handleEventData.
onUnknownType_Throws(a) ==
    showError(a, [error |-> "error while processing the response", details |-> "unknown type"])

\* default: console.warn('Unknown event type:', ...)
onUnknownType(a) == a

handleEventData(a, event) ==
    IF isEmptyData(event.data) \/ isBlankData(event.data) THEN a
    ELSE LET parsed == JSONparse(event.data)
         IN  IF parsed.threw THEN onParseError(a)
             ELSE IF ~isObject(parsed) THEN a
             ELSE CASE event.type = "status" -> updateStatus(a, parsed.obj)
                    [] event.type = "tool_result" -> handleToolResult(a, parsed.obj)
                    [] event.type = "answer" -> updateAnswer(a, parsed.obj)
                    [] event.type = "error" -> showError(a, parsed.obj)
                    [] OTHER -> onUnknownType(a)

\* The event types handleSendMessage registers a listener for.
ListenedTypes == {"status", "tool_result", "answer", "error", "complete"}

\* A listener that does not look at the stream's readyState.
listener_Unguarded(a, rs, event) ==
    IF isEmptyData(event.data) THEN [app |-> a, rs |-> rs]
    ELSE [app |-> handleEventData(a, event),
          rs |-> IF event.type = "complete" THEN "CLOSED" ELSE rs]

\* The listener of one event type: the application state and the stream's
\* readyState after it has run.
listener(a, rs, event) ==
    IF rs = "CLOSED" THEN [app |-> a, rs |-> rs]
    ELSE IF isEmptyData(event.data) THEN [app |-> a, rs |-> rs]
    ELSE [app |-> handleEventData(a, event),
          rs |-> IF event.type = "complete" THEN "CLOSED" ELSE rs]

(* ----------------------- the search_results ChatApp -------------------- *)

\* An updateSearchResults that leaves what the reference area holds in place.
updateSearchResults_KeepList(a, data) ==
    LET results == IF "results" \in DOMAIN data THEN data.results.items ELSE <<>>
    IN  IF Get(data, "status") = "error" \/ Len(results) = 0 THEN a
        ELSE [a EXCEPT !.referencesVisible = TRUE,
                       !.timers = Append(@, Batch("entry", results))]

\* updateSearchResults(data): the list is emptied, then an error payload or
\* an empty list is reported in it, and a non-empty list is revealed entry by
\* entry.  data.results, when present, is an array in the frames modelled.
updateSearchResults(a, data) ==
    IF Get(data, "status") = "error"
    THEN [a EXCEPT !.referenceCards =
                        <<[cls |-> "error",
                           text |-> "search failed: " \o
                                    (IF Get(data, "error") = Undef THEN "undefined"
                                     ELSE data.error),
                           details |-> IF TruthyStr(Get(data, "details")) THEN data.details
                                       ELSE ""]>>,
                   !.referencesVisible = FALSE]
    ELSE LET results == IF "results" \in DOMAIN data THEN data.results.items ELSE <<>>
         IN  IF Len(results) = 0
             THEN [a EXCEPT !.referenceCards = <<El("no-results", "no search results")>>,
                            !.referencesVisible = FALSE]
             ELSE [a EXCEPT !.referenceCards = <<>>,
                            !.referencesVisible = TRUE,
                            !.timers = Append(@, Batch("entry", results))]

\* The href property of a card's anchor: the link resolved against the
\* page's address (an absolute link is taken as it is written).
href(link) ==
    IF Len(link) >= 4 /\ SubSeq(link, 1, 4) = "http" THEN link
    ELSE "http://localhost/" \o link

\* updateSearchResult(data) of the tool-based ChatApp, which nothing calls:
\* the card whose anchor's href is the link gets the new content; if there is
\* none, updateSearchResults (the tool-based ChatApp's reads as the one
\* above) is called with the one result.
updateSearchResult(a, data) ==
    IF "result" \in DOMAIN data /\ TruthyStr(Get(data.result, "link"))
    THEN LET cards == a.referenceCards
             found == {i \in 1..Len(cards) :
                        /\ cards[i].cls = "reference-card"
                        /\ cards[i].link # Undef
                        /\ href(cards[i].link) = data.result.link}
         IN  IF found # {}
             THEN LET i == CHOOSE i \in found : \A j \in found : i <= j
                  IN  [a EXCEPT !.referenceCards[i].content =
                            truncateContent(Get(data.result, "content"), DefaultMaxLength)]
             ELSE updateSearchResults(a, [status |-> "success",
                                          results |-> JsArray(<<data.result>>),
                                          isInitialResults |-> FALSE])
    ELSE a

\* updateSearchResult(data) of the search_results ChatApp: returns at once.
updateSearchResult_R1(a, data) == a

\* updateStatus(data) of the search_results ChatApp: the answer area's
\* indicator is rewritten when it exists, and only 'generating' creates one.
updateStatus_R1(a, data) ==
    LET status == Get(data, "status")
    IN  CASE status = "searching" ->
                [a EXCEPT !.referenceCards = <<El("loading", "searching")>>,
                          !.referencesVisible = TRUE,
                          !.answerContent = setCardsLoading(@, "searching")]
          [] status = "parsing" ->
                [a EXCEPT !.referenceCards = setCardsLoading(@, "parsing"),
                          !.answerContent = setCardsLoading(@, "parsing")]
          [] status = "parsing_completed" ->
                [a EXCEPT !.referenceCards = setCardsLoading(@, "parsed"),
                          !.answerContent = setCardsLoading(@, "parsed")]
          [] status = "generating" ->
                [a EXCEPT !.referenceCards = removeCardsLoading(@),
                          !.answerContent =
                                Append(removeCardsLoading(@), El("loading", "generating"))]
          [] OTHER -> a

handleEventData_R1(a, event) ==
    IF isEmptyData(event.data) \/ isBlankData(event.data) THEN a
    ELSE LET parsed == JSONparse(event.data)
         IN  IF parsed.threw THEN onParseError(a)
             ELSE IF ~isObject(parsed) THEN a
             ELSE CASE event.type = "status" -> updateStatus_R1(a, parsed.obj)
                    [] event.type = "search_results" -> updateSearchResults(a, parsed.obj)
                    [] event.type = "search_result_update" ->
                            updateSearchResult_R1(a, parsed.obj)
                    [] event.type = "answer" -> updateAnswer(a, parsed.obj)
                    [] event.type = "error" -> showError(a, parsed.obj)
                    [] OTHER -> onUnknownType(a)

\* The event types the search_results ChatApp registers a listener for.
ListenedTypes_R1 ==
    {"status", "search_results", "search_result_update", "answer", "error", "complete"}

listener_R1(a, rs, event) ==
    IF rs = "CLOSED" THEN [app |-> a, rs |-> rs]
    ELSE IF isEmptyData(event.data) THEN [app |-> a, rs |-> rs]
    ELSE [app |-> handleEventData_R1(a, event),
          rs |-> IF event.type = "complete" THEN "CLOSED" ELSE rs]

\* A dispatch that withholds tool results once answer content has arrived.
dispatchEvent_Gated(a, rs, event, rev) ==
    IF event.type = "tool_result" /\ a.currentAnswer # "" THEN [app |-> a, rs |-> rs]
    ELSE IF event.type \in ListenedTypes THEN listener(a, rs, event)
    ELSE [app |-> a, rs |-> rs]

\* The EventSource hands an event to the listener registered for its type;
\* an event of a type nobody listens for runs no code.  rev is the ChatApp
\* the page runs: 1 the search_results one, 2 the tool-based one.
dispatchEvent(a, rs, event, rev) ==
    IF rev = 1
    THEN IF event.type \in ListenedTypes_R1 THEN listener_R1(a, rs, event)
         ELSE [app |-> a, rs |-> rs]
    ELSE IF event.type \in ListenedTypes THEN listener(a, rs, event)
         ELSE [app |-> a, rs |-> rs]

(* ------------------------ the search-toggle ChatApp -------------------- *)

\* A parsed value without properties (a number): every data.f is undefined.
NoProps == <<>>

\* What the catch of handleEventData shows for the exception it caught.
CaughtShown(message) ==
    [error |-> "error while processing the response", details |-> message]

\* updateStatus(data): the reference area is touched only while the toggle
\* is checked, and 'searching' puts its indicator before the cards.
updateStatus_R3(a, data, checked) ==
    LET status == Get(data, "status")
    IN  CASE status = "searching" ->
                [a EXCEPT !.referenceCards =
                                IF checked THEN <<El("loading", "searching")>> \o @ ELSE @,
                          !.answerContent = setCardsLoading(@, "searching")]
          [] status = "parsing" ->
                [a EXCEPT !.referenceCards =
                                IF checked THEN setCardsLoading(@, "parsing") ELSE @,
                          !.answerContent = setCardsLoading(@, "parsing")]
          [] status = "parsing_completed" ->
                [a EXCEPT !.referenceCards =
                                IF checked THEN setCardsLoading(@, "parsed") ELSE @,
                          !.answerContent = setCardsLoading(@, "parsed")]
          [] status = "generating" ->
                [a EXCEPT !.referenceCards = IF checked THEN removeCardsLoading(@) ELSE @,
                          !.answerContent =
                                Append(removeCardsLoading(@), El("loading", "generating"))]
          [] OTHER -> a

\* updateSearchResults(data): nothing while the toggle is unchecked; the
\* list is not emptied before the entries are revealed.
updateSearchResults_R3(a, data, checked) ==
    IF ~checked THEN a
    ELSE IF Get(data, "status") = "error"
    THEN [a EXCEPT !.referenceCards =
                        <<[cls |-> "error",
                           text |-> "search failed: " \o
                                    (IF Get(data, "error") = Undef THEN "undefined"
                                     ELSE data.error),
                           details |-> IF TruthyStr(Get(data, "details")) THEN data.details
                                       ELSE ""]>>,
                   !.referencesVisible = FALSE]
    ELSE LET results == IF "results" \in DOMAIN data THEN data.results.items ELSE <<>>
         IN  IF Len(results) = 0
             THEN [a EXCEPT !.referenceCards = <<El("no-results", "no search results")>>,
                            !.referencesVisible = FALSE]
             ELSE [a EXCEPT !.referencesVisible = TRUE,
                            !.timers = Append(@, Batch("snippet", results))]

\* handleEventData(event): JSON.parse is inside the try, and the payload is
\* not checked before its properties are read, so a payload that does not
\* parse, or parses to null where data.status is read, ends in the catch,
\* which shows an error.  showError(null) removes the indicator before it
\* throws, as the catch's showError does anyway.
handleEventData_R3(a, event, checked) ==
    LET parsed == JSONparse(event.data)
    IN  IF parsed.threw THEN showError(a, CaughtShown("SyntaxError"))
        ELSE IF parsed.t = "null"
        THEN CASE event.type \in {"status", "answer", "error"} ->
                        showError(a, CaughtShown("TypeError"))
               [] event.type = "search_results" ->
                        IF checked THEN showError(a, CaughtShown("TypeError")) ELSE a
               [] OTHER -> a
        ELSE LET data == IF parsed.t = "number" THEN NoProps ELSE parsed.obj
             IN  CASE event.type = "status" -> updateStatus_R3(a, data, checked)
                   [] event.type = "search_results" ->
                            updateSearchResults_R3(a, data, checked)
                   [] event.type = "answer" -> updateAnswer(a, data)
                   [] event.type = "error" -> showError(a, data)
                   [] OTHER -> a

\* The event types the search-toggle ChatApp registers a listener for.
ListenedTypes_R3 == {"status", "search_results", "search_result_update", "answer", "error"}

\* The listener of one event type: no readyState check; handleEventData,
\* then JSON.parse again to close the stream on status 'completed'.  When
\* that second parse (or reading null.status) throws, the catch block names
\* `data`, which is declared inside the try block: the ReferenceError leaves
\* the listener (threw).
listener_R3(a, rs, event, checked) ==
    LET parsed == JSONparse(event.data)
        throws == \/ parsed.threw
                  \/ (event.type = "status" /\ parsed.t = "null")
        completes == /\ ~throws
                     /\ event.type = "status"
                     /\ parsed.t = "object"
                     /\ Get(parsed.obj, "status") = "completed"
    IN  [app |-> handleEventData_R3(a, event, checked),
         rs |-> IF completes THEN "CLOSED" ELSE rs,
         threw |-> throws]

dispatchEvent_R3(a, rs, event, checked) ==
    IF event.type \in ListenedTypes_R3 THEN listener_R3(a, rs, event, checked)
    ELSE [app |-> a, rs |-> rs, threw |-> FALSE]

(* ---------------------------- handleSendMessage ------------------------ *)

\* The texts the user may have typed into the input box.
Inputs == {"", "  ", " q "}

\* The text consists of spaces only (or of nothing).
IsBlank(text) == \A i \in 1..Len(text) : SubSeq(text, i, i) = " "

\* The text taken as it is.
trim_None(text) == text

\* String.prototype.trim on those texts.
trim(text) == CASE text = "  " -> "" [] text = " q " -> "q" [] OTHER -> text

\* handleSendMessage with a non-empty message, up to the try block: the user
\* message and the 'thinking' indicator are added and the answer buffer reset.
beginTurn(a, message) ==
    LET ac == IF \/ QuerySelector(a.answerContent, "loading") # 0
                 \/ QuerySelector(a.answerContent, "placeholder") # 0
              THEN <<El("user-message", message)>>
              ELSE Append(a.answerContent, El("user-message", message))
    IN  [a EXCEPT !.answerContent = Append(ac, El("loading", "thinking")),
                  !.currentAnswer = ""]

\* A handleSendMessage that creates the stream whether the tools are loaded
\* or not.
handleSendMessage_Ungated(a, message, toolOptionsSet) ==
    [app |-> beginTurn(a, message), rs |-> "CONNECTING"]

\* The try block: Array.from(this.toolOptions) throws while this.toolOptions
\* is undefined, and the catch shows the error; otherwise the stream is created.
handleSendMessage(a, message, toolOptionsSet) ==
    IF toolOptionsSet
    THEN [app |-> beginTurn(a, message), rs |-> "CONNECTING"]
    ELSE [app |-> showError(beginTurn(a, message), JsString("error: not iterable")),
          rs |-> "none"]

\* handleSendMessage of the search-toggle ChatApp with a non-empty message: nothing in the try block
\* depends on the tools, the stream is always created.
handleSendMessage_R3(a, message) == [app |-> beginTurn(a, message), rs |-> "CONNECTING"]

\* request_id: Date.now().toString(), for a clock reading in milliseconds.
request_id(now) == ToString(now)

\* What Date.now() may return when a request is made, given the readings the
\* earlier requests were made of: a millisecond later at least, or, when the
\* submissions follow each other rapidly, the same millisecond.
DateNow(readings, rapid) ==
    LET prev == CHOOSE t \in {readings[s] : s \in DOMAIN readings} :
                    \A s \in DOMAIN readings : readings[s] <= t
    IN  IF rapid /\ prev > 0 THEN {prev, prev + 1} ELSE {prev + 1}

(* ------------------------------- onerror ------------------------------- *)

\* An onerror that starts the answer over when the browser reconnects.
onerror_ResetOnReconnect(a, rs) ==
    CASE rs = "CONNECTING" -> [app |-> [a EXCEPT !.currentAnswer = ""], rs |-> rs]
      [] rs = "CLOSED" ->
            [app |-> IF a.currentAnswer = ""
                     THEN showError(a, JsString("connection lost, retry"))
                     ELSE a,
             rs |-> rs]
      [] OTHER -> [app |-> showError(a, JsString("connection error, retry")),
                   rs |-> "CLOSED"]

\* eventSource.onerror: the application state and the readyState after it.
onerror(a, rs) ==
    CASE rs = "CONNECTING" -> [app |-> a, rs |-> rs]
      [] rs = "CLOSED" ->
            [app |-> IF a.currentAnswer = ""
                     THEN showError(a, JsString("connection lost, retry"))
                     ELSE a,
             rs |-> rs]
      [] OTHER -> [app |-> showError(a, JsString("connection error, retry")),
                   rs |-> "CLOSED"]

\* eventSource.onerror of the search-toggle ChatApp.
onerror_R3(a, rs) ==
    IF rs = "CLOSED" THEN [app |-> a, rs |-> rs]
    ELSE [app |-> showError(a, JsString("connection error, retry")), rs |-> "CLOSED"]

(* ------------------------------- frames -------------------------------- *)

Frame(type, data) == [type |-> type, data |-> data]

ResultA == [link |-> "a", title |-> "T1", content |-> "old"]
PaperP == [link |-> "p", title |-> "P1", authors |-> "X, Y", content |-> "abs",
           submitted |-> "2024"]

StatusFrames ==
    {Frame("status", RawObject([status |-> st])) :
        st \in {"searching", "fetch_completed", "generating", "completed"}}
    \cup {Frame("status", RawObject([status |-> "fetch_start", message |-> "fetching"])),
          Frame("status", RawObject([status |-> "fetch_progress", message |-> "fetching",
                                     progress |-> 500]))}

ToolFrames ==
    {Frame("tool_result", RawObject([tool_name |-> "search_web", result |-> JsArray(<<ResultA>>)])),
     Frame("tool_result", RawObject([tool_name |-> "search_arxiv", result |-> JsArray(<<PaperP>>)])),
     Frame("tool_result", RawObject([tool_name |-> "calc", result |-> JsText("4")])),
     Frame("tool_result", RawObject([result |-> JsText("4")]))}

AnswerFrames ==
    {Frame("answer", RawObject([content |-> "He"])),
     Frame("answer", RawObject([content |-> "llo"])),
     Frame("answer", RawObject([content |-> ""])),
     Frame("answer", RawObject([status |-> "error", error |-> "llm failed", content |-> "x"]))}

ErrorFrames == {Frame("error", RawObject([error |-> "timeout"]))}

ResultB == [link |-> "b", title |-> "T2", content |-> "two"]
ResultC == [link |-> "c", title |-> "T3", content |-> "three"]

\* Two search batches, the first with a second entry revealed 100 ms later.
BatchFrames ==
    {Frame("tool_result", RawObject([tool_name |-> "search_web",
                                     result |-> JsArray(<<ResultA, ResultB>>)])),
     Frame("tool_result", RawObject([tool_name |-> "search_web",
                                     result |-> JsArray(<<ResultC>>)]))}

\* The frames of the older tag set.
SearchFrames ==
    {Frame("search_results", RawObject([results |-> JsArray(<<ResultA>>)])),
     Frame("search_result_update", RawObject([result |-> [link |-> "a", content |-> "new"]]))}

\* Status frames with a phase only the search_results ChatApp knows, or no
\* ChatApp knows.
PhaseFrames ==
    {Frame("status", RawObject([status |-> st])) : st \in {"parsing", "thinking"}}

CompleteFrames == {Frame("complete", RawObject([status |-> "done"]))}

\* fetch_progress frames whose progress (in thousandths) is above 1, below 0
\* and 0.
ProgressFrames ==
    {Frame("status", RawObject([status |-> "fetch_progress", message |-> "fetching",
                                progress |-> pr])) : pr \in {1500, -500, 0}}
    \cup {Frame("status", RawObject([status |-> "parsing_completed"]))}

\* The search backend reports a failure.
SearchErrorFrames ==
    {Frame("search_results", RawObject([status |-> "error", error |-> "boom"]))}

RECURSIVE Repeat(_, _)
Repeat(c, n) ==
    IF n = 0 THEN ""
    ELSE IF n % 2 = 0 THEN LET half == Repeat(c, n \div 2) IN half \o half
    ELSE c \o Repeat(c, n - 1)

\* Generic tool outputs of exactly GenericMaxLength characters and of one
\* more.
LongTexts == {Repeat("x", GenericMaxLength), Repeat("x", GenericMaxLength) \o "y"}

LongFrames ==
    {Frame("tool_result", RawObject([tool_name |-> "calc", result |-> JsText(text)])) :
        text \in LongTexts}

\* What the search-toggle ChatApp is sent in the runs considered.
ToggleFrames ==
    {Frame("status", RawBrace), Frame("status", RawNull),
     Frame("search_results", RawObject([results |-> JsArray(<<ResultA>>)])),
     Frame("answer", RawObject([content |-> "He"]))}

\* The frames of a turn that searches, finds one entry and answers 'Hello'.
ScenarioA ==
    <<Frame("status", RawObject([status |-> "searching"])),
      Frame("search_results", RawObject([results |-> JsArray(<<[link |-> "a", title |-> "T1"]>>)])),
      Frame("answer", RawObject([content |-> "He"])),
      Frame("answer", RawObject([content |-> "llo"])),
      Frame("complete", RawObject([status |-> "done"]))>>

MalformedFrames == {Frame(type, data) : type \in ListenedTypes, data \in Malformed}

Frames == StatusFrames \cup ToolFrames \cup AnswerFrames \cup ErrorFrames
            \cup CompleteFrames \cup MalformedFrames
            \cup BatchFrames \cup SearchFrames \cup PhaseFrames
            \cup ProgressFrames \cup SearchErrorFrames \cup LongFrames
            \cup ToggleFrames \cup {ScenarioA[i] : i \in DOMAIN ScenarioA}

\* What one run's backend emits: a run draws its frames from one profile.
Profiles ==
    {"answer", "answer-edge", "status", "tools", "malformed", "batches", "results",
     "rapid", "failed-search", "progress", "long", "toggle", "scenario-a"}

\* The ChatApp a run's page loads: the search_results one (1) for the
\* backend that speaks the older tag set, the search-toggle one (3), the
\* tool-based one (2) otherwise.
Revision(p) ==
    CASE p \in {"results", "failed-search", "scenario-a"} -> 1
      [] p = "toggle" -> 3
      [] OTHER -> 2

\* The backend of the run emits its frames in a fixed order.
Scripted(p) == p = "scenario-a"

\* The number of submissions, frames, transport failures and clicks on the
\* toggle of the run.
Budget == IF Scripted(profile) THEN MaxScriptSteps ELSE MaxSteps

FramesOf(p) ==
    CASE p = "answer" ->
            {Frame("answer", RawObject([content |-> c])) : c \in {"He", "llo"}}
                \cup ErrorFrames \cup CompleteFrames
                \cup {f \in StatusFrames : f.data.obj.status \in {"generating", "completed"}}
      [] p = "answer-edge" ->
            (AnswerFrames \ {Frame("answer", RawObject([content |-> "llo"]))})
                \cup {f \in PhaseFrames : f.data.obj.status = "thinking"}
      [] p = "batches" ->
            BatchFrames \cup {f \in SearchFrames : f.type = "search_results"}
                \cup {Frame("answer", RawObject([content |-> "He"]))}
                \cup {f \in StatusFrames : f.data.obj.status = "generating"}
      [] p = "results" ->
            SearchFrames \cup {f \in PhaseFrames : f.data.obj.status = "parsing"}
                \cup {Frame("answer", RawObject([content |-> "He"]))}
                \cup {f \in StatusFrames : f.data.obj.status \in {"searching", "generating"}}
      [] p = "rapid" -> CompleteFrames
      [] p = "failed-search" ->
            SearchErrorFrames \cup {Frame("answer", RawObject([content |-> "He"]))}
      [] p = "progress" ->
            ProgressFrames
                \cup {f \in StatusFrames :
                        f.data.obj.status \in {"fetch_start", "fetch_completed"}}
      [] p = "long" -> LongFrames
      [] p = "toggle" -> ToggleFrames
      [] p = "scenario-a" -> {ScenarioA[i] : i \in DOMAIN ScenarioA}
      [] p = "status" ->
            StatusFrames \cup {Frame("answer", RawObject([content |-> "He"]))}
      [] p = "tools" ->
            ToolFrames \cup {Frame("answer", RawObject([content |-> "He"]))}
                \cup {f \in StatusFrames : f.data.obj.status = "searching"}
      [] OTHER ->
            {f \in MalformedFrames : f.type \in {"status", "answer", "complete"}}
                \cup ErrorFrames
                \cup {Frame("answer", RawObject([content |-> "He"]))}
                \cup {f \in StatusFrames : f.data.obj.status = "searching"}

\* The payload parses to an object, so the frame reaches the switch.
IsValid(event) == event.data.raw = "object"

\* The frame is a terminal signal that handleEventData has been handed.
IsCompletion(event) ==
    \/ event.type = "complete" /\ ~isEmptyData(event.data)
    \/ event.type = "status" /\ IsValid(event) /\ Get(event.data.obj, "status") = "completed"

\* The frame is an error event with an object payload.
IsError(event) == event.type = "error" /\ IsValid(event)

\* The frame is an answer frame whose payload is not an error payload and
\* carries a (non-empty) content fragment.
IsFragment(event) ==
    /\ event.type = "answer"
    /\ IsValid(event)
    /\ Get(event.data.obj, "status") # "error"
    /\ TruthyStr(Get(event.data.obj, "content"))

\* The frame is a tool_result frame whose payload names a tool and has a result.
IsToolResult(event) ==
    /\ event.type = "tool_result"
    /\ IsValid(event)
    /\ "tool_name" \in DOMAIN event.data.obj
    /\ "result" \in DOMAIN event.data.obj

\* The links of the entries of a batch, in the batch's order.
Links(items) == [i \in 1..Len(items) |-> Get(items[i], "link")]

\* What the history records of a frame: how its payload reads.
Kind(event) ==
    CASE event.data \in Malformed -> "malformed"
      [] IsCompletion(event) -> "completion"
      [] IsError(event) -> "error"
      [] IsFragment(event) -> "fragment"
      [] IsToolResult(event) -> "tool"
      [] event.type = "answer" /\ IsValid(event) /\ Get(event.data.obj, "status") = "error" ->
            "answer-error"
      [] event.type = "search_results" /\ IsValid(event)
            /\ Get(event.data.obj, "status") = "error" -> "search-error"
      [] event.type = "status" /\ IsValid(event)
            /\ Get(event.data.obj, "status")
                    \in {"fetch_progress", "fetch_completed", "parsing_completed"} ->
            event.data.obj.status
      [] OTHER -> "other"

(* ------------------------------- actions ------------------------------- *)

\* The handlers' result is written back to the application state.
Commit(a) ==
    /\ currentAnswer' = a.currentAnswer
    /\ answerContent' = a.answerContent
    /\ referenceCards' = a.referenceCards
    /\ referencesVisible' = a.referencesVisible
    /\ progressVisible' = a.progressVisible
    /\ progressPct' = a.progressPct
    /\ timers' = a.timers

Init ==
    /\ profile \in Profiles
    /\ toolOptions = "undefined"
    /\ currentAnswer = ""
    /\ answerContent = <<El("placeholder", "")>>
    /\ referenceCards = <<>>
    /\ referencesVisible = FALSE
    /\ progressVisible = FALSE
    /\ progressPct = 0
    /\ timers = <<>>
    /\ readyState = [s \in Streams |-> "none"]
    /\ turns = 0
    /\ errorEvent = 0
    /\ steps = 0
    /\ phase = [s \in Streams |-> "live"]
    /\ fragments = <<>>
    /\ batch = <<>>
    /\ requestTime = [s \in Streams |-> 0]
    /\ cursor = [s \in Streams |-> 0]
    /\ searchToggle = TRUE
    /\ last = [op |-> "init"]

\* loadAvailableTools gets its response and sets this.toolOptions.  A fetch
\* that fails leaves it undefined for good: this action never happens.  The
\* search-toggle ChatApp has no tools to load.
LoadTools ==
    /\ Revision(profile) # 3
    /\ toolOptions = "undefined"
    /\ errorEvent = 0
    /\ toolOptions' = "set"
    /\ last' = [op |-> "tools"]
    /\ UNCHANGED <<profile, currentAnswer, answerContent, referenceCards, referencesVisible,
                   progressVisible, progressPct, timers, readyState, turns, errorEvent,
                   steps, phase, fragments, batch, requestTime, cursor,
                   searchToggle>>

\* The user clicks send (or presses Enter) with `input` in the box.
SendMessage(input) ==
    /\ errorEvent = 0
    /\ steps < Budget
    /\ steps' = steps + 1
    /\ IF trim(input) = ""
       THEN /\ last' = [op |-> "send", s |-> 0, blank |-> IsBlank(input)]
            /\ UNCHANGED <<currentAnswer, answerContent, referenceCards, referencesVisible,
                           progressVisible, progressPct, timers, readyState, turns,
                           fragments, requestTime>>
       ELSE /\ turns < MaxTurns
            /\ \E now \in DateNow(requestTime, profile = "rapid") :
                 LET r == IF Revision(profile) = 3
                          THEN handleSendMessage_R3(App, trim(input))
                          ELSE handleSendMessage(App, trim(input), toolOptions = "set")
                 IN  /\ Commit(r.app)
                     /\ readyState' = [readyState EXCEPT ![turns + 1] = r.rs]
                     \* the search-toggle ChatApp sends no request_id
                     /\ requestTime' =
                            [requestTime EXCEPT ![turns + 1] =
                                IF r.rs = "CONNECTING" /\ Revision(profile) # 3
                                THEN now ELSE 0]
            /\ turns' = turns + 1
            /\ fragments' = <<>>
            /\ last' = [op |-> "send", s |-> turns + 1, blank |-> IsBlank(input)]
    /\ UNCHANGED <<profile, toolOptions, errorEvent, phase, batch, cursor, searchToggle>>

\* The browser announces the connection (also after a reconnection).
Open(s) ==
    /\ errorEvent = 0
    /\ readyState[s] = "CONNECTING"
    /\ readyState' = [readyState EXCEPT ![s] = "OPEN"]
    /\ last' = [op |-> "open", s |-> s]
    /\ UNCHANGED <<profile, toolOptions, currentAnswer, answerContent, referenceCards,
                   referencesVisible, progressVisible, progressPct, timers, turns,
                   errorEvent, steps, phase, fragments, batch, requestTime, cursor,
                   searchToggle>>

\* A frame of stream s is handed to the listener of its event type.
Deliver(s, event) ==
    /\ errorEvent = 0
    /\ steps < Budget
    /\ readyState[s] \in {"OPEN", "CLOSED"}
    /\ event \in FramesOf(profile)
    /\ Scripted(profile) =>
            cursor[s] < Len(ScenarioA) /\ event = ScenarioA[cursor[s] + 1]
    /\ cursor' = IF Scripted(profile) THEN [cursor EXCEPT ![s] = @ + 1] ELSE cursor
    /\ LET r == IF Revision(profile) = 3
                THEN dispatchEvent_R3(App, readyState[s], event, searchToggle)
                ELSE dispatchEvent(App, readyState[s], event, Revision(profile))
       IN  /\ Commit(r.app)
           /\ readyState' = [readyState EXCEPT ![s] = r.rs]
           /\ batch' = IF Len(r.app.timers) > Len(timers)
                        THEN Links(r.app.timers[Len(r.app.timers)].items)
                        ELSE batch
           /\ last' = [op |-> "frame", s |-> s, type |-> event.type, kind |-> Kind(event),
                        rs |-> readyState[s],
                        tool |-> IF IsToolResult(event) THEN event.data.obj.tool_name
                                 ELSE "",
                        threw |-> Revision(profile) = 3 /\ r.threw]
    /\ steps' = steps + 1
    /\ phase' = [phase EXCEPT ![s] =
                    IF readyState[s] = "OPEN" /\ @ = "live"
                    THEN IF IsCompletion(event) THEN "completed"
                         ELSE IF IsError(event) THEN "failed" ELSE @
                    ELSE @]
    \* the listeners of the search-toggle ChatApp do not look at readyState
    /\ fragments' = IF (readyState[s] = "OPEN" \/ Revision(profile) = 3) /\ IsFragment(event)
                    THEN Append(fragments, event.data.obj.content)
                    ELSE fragments
    /\ UNCHANGED <<profile, toolOptions, turns, errorEvent, requestTime, searchToggle>>

\* The transport of stream s fails: the browser sets readyState (CONNECTING
\* when it will reconnect, CLOSED when it gives up) and fires the error
\* event; an error event fired with readyState left OPEN is what the
\* handler's default branch is written for.
TransportError(s, rs) ==
    /\ errorEvent = 0
    /\ steps < Budget
    /\ readyState[s] \in {"CONNECTING", "OPEN"}
    /\ rs \in {"CONNECTING", "CLOSED", readyState[s]}
    /\ readyState' = [readyState EXCEPT ![s] = rs]
    /\ errorEvent' = s
    /\ steps' = steps + 1
    /\ last' = [op |-> "transport", s |-> s]
    /\ UNCHANGED <<profile, toolOptions, currentAnswer, answerContent, referenceCards,
                   referencesVisible, progressVisible, progressPct, timers, turns,
                   phase, fragments, batch, requestTime, cursor,
                   searchToggle>>

\* eventSource.onerror runs for the error event being dispatched.
OnError(s) ==
    /\ errorEvent = s
    /\ LET r == IF Revision(profile) = 3 THEN onerror_R3(App, readyState[s])
                ELSE onerror(App, readyState[s])
       IN  /\ Commit(r.app)
           /\ readyState' = [readyState EXCEPT ![s] = r.rs]
    /\ errorEvent' = 0
    /\ last' = [op |-> "onerror", s |-> s, rs |-> readyState[s]]
    /\ UNCHANGED <<profile, toolOptions, turns, steps, phase, fragments, batch, requestTime, cursor,
                   searchToggle>>

\* Staggered callbacks that reveal a batch from its last entry backwards.
TimerFire_LastFirst(b) ==
    /\ errorEvent = 0
    /\ b \in 1..Len(timers)
    /\ \A c \in 1..(b - 1) : timers[c].index > timers[b].index
    /\ LET t == timers[b]
       IN  /\ referenceCards' =
                Append(referenceCards, Card(t.kind, t.index, t.items[Len(t.items)]))
           /\ timers' = IF Len(t.items) = 1 THEN RemoveAt(timers, b)
                        ELSE [timers EXCEPT ![b] =
                                [t EXCEPT !.index = @ + 1,
                                          !.items = SubSeq(@, 1, Len(@) - 1)]]
    /\ last' = [op |-> "timer"]
    /\ UNCHANGED <<profile, toolOptions, currentAnswer, answerContent, referencesVisible,
                   progressVisible, progressPct, readyState, turns, errorEvent, steps,
                   phase, fragments, batch, requestTime, cursor,
                   searchToggle>>

\* The next staggered callback of batch b runs.  A callback of a later batch
\* is due after every callback of an earlier batch with the same or a smaller
\* index.
TimerFire(b) ==
    /\ errorEvent = 0
    /\ b \in 1..Len(timers)
    /\ \A c \in 1..(b - 1) : timers[c].index > timers[b].index
    /\ LET t == timers[b]
       IN  /\ referenceCards' = Append(referenceCards, Card(t.kind, t.index, Head(t.items)))
           /\ timers' = IF Len(t.items) = 1 THEN RemoveAt(timers, b)
                        ELSE [timers EXCEPT ![b] = [t EXCEPT !.index = @ + 1,
                                                             !.items = Tail(@)]]
    /\ last' = [op |-> "timer"]
    /\ UNCHANGED <<profile, toolOptions, currentAnswer, answerContent, referencesVisible,
                   progressVisible, progressPct, readyState, turns, errorEvent, steps,
                   phase, fragments, batch, requestTime, cursor,
                   searchToggle>>

\* The user checks or unchecks #useSearch (search-toggle ChatApp).
Toggle ==
    /\ Revision(profile) = 3
    /\ errorEvent = 0
    /\ steps < Budget
    /\ steps' = steps + 1
    /\ searchToggle' = ~searchToggle
    /\ last' = [op |-> "toggle"]
    /\ UNCHANGED <<profile, toolOptions, currentAnswer, answerContent, referenceCards,
                   referencesVisible, progressVisible, progressPct, timers, readyState,
                   turns, errorEvent, phase, fragments, batch, requestTime, cursor>>

Next ==
    \/ LoadTools
    \/ Toggle
    \/ \E input \in Inputs : SendMessage(input)
    \/ \E s \in Streams : Open(s)
    \/ \E s \in Streams, event \in FramesOf(profile) : Deliver(s, event)
    \/ \E s \in Streams, rs \in {"CONNECTING", "OPEN", "CLOSED"} : TransportError(s, rs)
    \/ \E s \in Streams : OnError(s)
    \/ \E b \in 1..Len(timers) : TimerFire(b)

Spec == Init /\ [][Next]_vars

\* Dispatched events reach their handlers and due timers run.
FairSpec ==
    /\ Spec
    /\ WF_vars(\E s \in Streams : OnError(s))
    /\ WF_vars(\E b \in 1..Len(timers) : TimerFire(b))

(* ------------------------------ properties ----------------------------- *)

RECURSIVE Concat(_)
\* f1 + f2 + ... + fn
Concat(fs) == IF fs = <<>> THEN "" ELSE Head(fs) \o Concat(Tail(fs))

\* Number of children of an area with a class.
Count(area, cls) == Cardinality({i \in 1..Len(area) : area[i].cls = cls})

\* The children of the answer area that belong to the latest turn: those
\* after the last user message.
TurnElements ==
    LET us == {i \in 1..Len(answerContent) : answerContent[i].cls = "user-message"}
    IN  IF us = {} THEN <<>>
        ELSE SubSeq(answerContent, (CHOOSE i \in us : \A j \in us : j <= i) + 1,
                    Len(answerContent))

\* What the user sees of a turn besides the answer text.
Display == <<answerContent, referenceCards, referencesVisible, progressVisible, progressPct>>

\* C1: within a turn, this.currentAnswer is the concatenation, in arrival
\* order, of the content fragments of the non-error answer frames handled
\* since the turn began, whatever other frames came in between.
C1_AnswerIsConcatenation == currentAnswer = Concat(fragments)

\* Two different fragments have been appended, with a status frame handled
\* between them (it re-created the indicator, so a second answer block exists).
C1_Witness ==
    /\ fragments = <<"He", "llo">>
    /\ Count(answerContent, "ai-message") = 2
    /\ last.op = "frame" /\ last.kind = "fragment"

\* C2: once a later turn has been started, a frame delivered on the stream
\* of an earlier turn changes neither this.currentAnswer nor what is displayed.
C2_SupersededFramesAreNoOps ==
    [][(last'.op = "frame" /\ last'.s < turns)
        => (currentAnswer' = currentAnswer /\ Display' = Display)]_vars

\* C3: at most one event stream is open at any time.
C3_AtMostOneOpenStream ==
    Cardinality({s \in Streams : readyState[s] = "OPEN"}) <= 1

\* C4: after a status frame with status 'completed' or a complete frame has
\* been handled on a stream, no later frame of that stream changes
\* this.currentAnswer or what is displayed.
C4_NoChangeAfterCompletion ==
    [][(last'.op = "frame" /\ phase[last'.s] = "completed")
        => (currentAnswer' = currentAnswer /\ Display' = Display)]_vars

\* C5: after an error frame has been handled on a stream, no later frame of
\* that stream changes this.currentAnswer or what is displayed.
C5_NoChangeAfterError ==
    [][(last'.op = "frame" /\ phase[last'.s] = "failed")
        => (currentAnswer' = currentAnswer /\ Display' = Display)]_vars

\* Every event type a frame may bear, registered or not.
EventTypes == ListenedTypes \cup {"search_results", "search_result_update", "ping"}

\* C6: in every reachable state, handleEventData called with an empty,
\* whitespace-only, '{', 'null' or '42' payload leaves the application state
\* as it is, for every event type (no error is shown, so nothing was thrown
\* to a catch either).
C6_MalformedPayloadIsDropped ==
    LET a == App
    IN  \A type \in EventTypes, data \in Malformed :
            handleEventData(a, Frame(type, data)) = a

\* A malformed frame has just been handled on an open stream while the
\* turn's indicator is displayed.
C6_Witness ==
    /\ last.op = "frame" /\ last.kind = "malformed" /\ last.rs = "OPEN"
    /\ QuerySelector(answerContent, "loading") # 0

\* C7: a complete frame (whatever its payload) and a status frame with status
\* 'completed', received on an open stream, both close the EventSource.
C7_TerminalSignalsClose ==
    [][(/\ last'.op = "frame"
        /\ last'.rs = "OPEN"
        /\ (last'.kind = "completion" \/ last'.type = "complete"))
        => readyState'[last'.s] = "CLOSED"]_vars

\* The latest turn shows an error.
TurnFailed == Count(TurnElements, "error") > 0

\* The stream of the latest turn has ended (the browser reconnects or has
\* given up) with no terminal frame handled and no answer content received.
EndedUnexpectedly(s) ==
    /\ errorEvent = s
    /\ s = turns
    /\ readyState[s] \in {"CONNECTING", "CLOSED"}
    /\ phase[s] = "live"
    /\ currentAnswer = ""

\* C8: a turn whose stream ends unexpectedly before any answer content
\* eventually shows an error.
C8_ConnectionLossFails ==
    \A s \in Streams : EndedUnexpectedly(s) ~> TurnFailed

\* C9: onerror, in any readyState, leaves the answer area as it is when
\* answer content has been received.
C9_TransportErrorKeepsAnswer ==
    [][(last'.op = "onerror" /\ currentAnswer # "")
        => answerContent' = answerContent]_vars

\* An error frame with an object payload is handled on an open stream after
\* at least one fragment of the turn.
ErrorAfterFragment ==
    /\ last'.op = "frame" /\ last'.kind = "error" /\ last'.rs = "OPEN"
    /\ fragments # <<>>

\* C10 as claimed: such an error frame leaves this.currentAnswer and the
\* rendered answer blocks in place.
C10_ErrorKeepsAnswerBlock ==
    [][ErrorAfterFragment
        => /\ currentAnswer' = currentAnswer
           /\ Count(answerContent', "ai-message") = Count(answerContent, "ai-message")]_vars

\* The answer area without its status indicator.
WithoutLoading(area) ==
    IF QuerySelector(area, "loading") # 0 THEN RemoveAt(area, QuerySelector(area, "loading"))
    ELSE area

\* C10 as amended: such an error frame leaves this.currentAnswer unchanged
\* and shows the payload's error as the last element of the answer area; the
\* answer block is replaced by it when it is the last element once the
\* indicator is removed, and kept otherwise.
C10_ErrorReplacesAnswerBlock ==
    [][ErrorAfterFragment
        => /\ currentAnswer' = currentAnswer
           /\ answerContent'[Len(answerContent')].cls = "error"
           /\ answerContent'[Len(answerContent')].text = "timeout"
           /\ Count(answerContent', "ai-message") =
                Count(answerContent, "ai-message")
                    - (IF LastAiMessage(WithoutLoading(answerContent)) # 0 THEN 1 ELSE 0)
           /\ Len(answerContent') = Len(WithoutLoading(answerContent))
                    + (IF LastAiMessage(WithoutLoading(answerContent)) # 0 THEN 0 ELSE 1)]_vars

\* The error frame has replaced the only answer block of the turn while the
\* buffer keeps the fragment.
C10_Witness ==
    /\ last.op = "frame" /\ last.kind = "error" /\ last.rs = "OPEN"
    /\ fragments # <<>>
    /\ currentAnswer = Concat(fragments)
    /\ Count(TurnElements, "ai-message") = 0
    /\ TurnFailed

\* p is a prefix of s.
IsPrefix(p, s) == Len(p) <= Len(s) /\ SubSeq(s, 1, Len(p)) = p

\* C11: every step leaves this.currentAnswer unchanged or extends it (the
\* old value is a prefix of the new one), except handleSendMessage with a
\* non-empty message, which resets it to the empty string; so no frame,
\* error, status, tool result or timer shortens or rewrites it.
C11_AnswerIsAppendOnly ==
    [][\/ IsPrefix(currentAnswer, currentAnswer')
       \/ (last'.op = "send" /\ last'.s # 0 /\ currentAnswer' = "")]_vars

\* onerror has shown its error over the answer block of a turn whose buffer
\* still holds the fragment received.
C11_Witness ==
    /\ last.op = "onerror" /\ last.rs = "OPEN"
    /\ currentAnswer = "He"
    /\ TurnFailed
    /\ Count(TurnElements, "ai-message") = 0

\* The search and paper entries of the reference list, in display order.
Entries(cards) == SelectSeq(cards, LAMBDA c : c.cls = "reference-card")

\* C12: in every reachable state the reference list holds at most one entry
\* per link, whatever frames were delivered and whenever the staggered
\* timers ran.
C12_OneCardPerLink ==
    \A i, j \in 1..Len(Entries(referenceCards)) :
        i < j => Entries(referenceCards)[i].link # Entries(referenceCards)[j].link

\* The list holds exactly one entry for link 'a', with content 'old'.
HoldsOldA ==
    /\ Cardinality({i \in 1..Len(referenceCards) :
                        Get(referenceCards[i], "link") = "a"}) = 1
    /\ \E i \in 1..Len(referenceCards) :
            Get(referenceCards[i], "link") = "a" /\ referenceCards[i].content = "old"

\* C13: a search_result_update frame for link 'a' with content 'new',
\* delivered on an open stream while the list holds one entry for 'a' with
\* content 'old', rewrites the content of that entry in place and changes
\* nothing else of the list.
C13_UpdateRewritesEntry ==
    [][(/\ last'.op = "frame" /\ last'.rs = "OPEN"
        /\ last'.type = "search_result_update" /\ last'.kind = "other"
        /\ HoldsOldA)
        => \E i \in 1..Len(referenceCards) :
                /\ Get(referenceCards[i], "link") = "a"
                /\ referenceCards' = [referenceCards EXCEPT ![i].content = "new"]]_vars

\* C14: the entries displayed all belong to the batch processed last, and
\* once its last timer has run they are exactly that batch, in its order.
C14_BatchReplacesList ==
    /\ \A i \in 1..Len(Entries(referenceCards)) :
            \E k \in 1..Len(batch) : Entries(referenceCards)[i].link = batch[k]
    /\ (last.op = "timer" /\ timers = <<>>) => Links(Entries(referenceCards)) = batch

\* What a tool_result payload does to the application state a, giving r:
\* a search_web / search_arxiv list empties the reference list and schedules
\* the reveal of its entries as result-i / paper-i cards (an empty list is
\* reported in the hidden reference area instead); any other tool adds one
\* card titled with the tool name and no entry; a payload without tool_name
\* or without result does nothing.  Nothing else changes.
ToolEffect(a, data, r) ==
    IF ~("tool_name" \in DOMAIN data /\ "result" \in DOMAIN data) THEN r = a
    ELSE IF data.tool_name \in {"search_web", "search_arxiv"} /\ Len(data.result.items) = 0
    THEN /\ Len(r.referenceCards) = 1 /\ r.referenceCards[1].cls = "no-results"
         /\ ~r.referencesVisible
         /\ r = [a EXCEPT !.referenceCards = r.referenceCards, !.referencesVisible = FALSE]
    ELSE IF data.tool_name \in {"search_web", "search_arxiv"}
    THEN r = [a EXCEPT !.referenceCards = <<>>,
                       !.referencesVisible = TRUE,
                       !.timers = Append(@, [kind |-> IF data.tool_name = "search_web"
                                                      THEN "result" ELSE "paper",
                                             index |-> 0,
                                             items |-> data.result.items])]
    ELSE /\ Count(r.referenceCards, "tool-result-card")
                = Count(a.referenceCards, "tool-result-card") + 1
         /\ r.referenceCards[Len(r.referenceCards)].cls = "tool-result-card"
         /\ r.referenceCards[Len(r.referenceCards)].title = data.tool_name
         /\ Len(Entries(r.referenceCards)) <= Len(Entries(a.referenceCards))
         /\ r.referencesVisible
         /\ r = [a EXCEPT !.referenceCards = r.referenceCards, !.referencesVisible = TRUE]

\* The tool_result frames of the runs, and one whose payload has no result.
ToolCases ==
    ToolFrames
        \cup {Frame("tool_result", RawObject([tool_name |-> "calc"])),
              Frame("tool_result", RawObject([tool_name |-> "search_web",
                                              result |-> JsArray(<<>>)])),
              Frame("tool_result", RawObject([tool_name |-> "search_arxiv",
                                              result |-> JsArray(<<>>)]))}

\* C15: in every reachable state, a tool_result frame handed to
\* handleEventData is rendered by its tool name: search_web and search_arxiv
\* lists as reference entries, any other tool as exactly one tool-result card
\* labelled with the tool name and no entry, and a payload lacking tool_name
\* or result as nothing.
C15_ToolResultsAreDemultiplexed ==
    LET a == App
    IN  \A f \in ToolCases : ToolEffect(a, f.data.obj, handleEventData(a, f))

\* The result of another tool is displayed as a tool-result card, and the
\* paper of a search_arxiv result has just been revealed after it.
C15_Witness ==
    /\ last.op = "timer"
    /\ Len(referenceCards) = 2
    /\ referenceCards[1].cls = "tool-result-card" /\ referenceCards[1].title = "calc"
    /\ referenceCards[1].text = "4"
    /\ referenceCards[2].cls = "reference-card" /\ referenceCards[2].id = "paper-0"

\* C16: a fragment that is not the first of its turn neither creates an
\* answer block nor clears a status indicator.
C16_AnswerBlockCreatedOnce ==
    [][(/\ last'.op = "frame" /\ last'.kind = "fragment" /\ last'.rs = "OPEN"
        /\ fragments # <<>>)
        => /\ Count(answerContent', "ai-message") = Count(answerContent, "ai-message")
           /\ Count(answerContent', "loading") = Count(answerContent, "loading")]_vars

\* C17: a tool_result frame handled on an open stream has the effect of its
\* payload whatever the turn has received before (status frames, answer
\* fragments), and leaves this.currentAnswer unchanged.
C17_ToolResultsAreNotGated ==
    [][(last'.op = "frame" /\ last'.kind = "tool" /\ last'.rs = "OPEN")
        => /\ currentAnswer' = currentAnswer
           /\ \E f \in FramesOf(profile) :
                    IsToolResult(f) /\ ToolEffect(App, f.data.obj, App')]_vars

\* A search batch has been scheduled after the turn's first fragment and a
\* later 'generating' status.
C17_Witness ==
    /\ last.op = "frame" /\ last.type = "tool_result" /\ last.rs = "OPEN"
    /\ fragments = <<"He">> /\ currentAnswer = "He"
    /\ \E i \in 1..Len(answerContent) :
            answerContent[i].cls = "loading" /\ answerContent[i].text = "generating"
    /\ referenceCards = <<>>
    /\ timers # <<>> /\ batch = <<"a", "b">>

\* C18: on a page running the tool-based ChatApp, a search_results frame
\* (with a non-empty list) handled on an open stream empties the reference
\* list and schedules the reveal of its entries.
C18_OlderTagsAreDispatched ==
    [][(/\ Revision(profile) = 2
        /\ last'.op = "frame" /\ last'.type = "search_results" /\ last'.rs = "OPEN"
        /\ last'.kind = "other")
        => /\ referenceCards' = <<>>
           /\ Len(timers') = Len(timers) + 1
           /\ batch' = <<"a">>]_vars

\* The event types neither dispatcher has a case for.
UnknownTypes == {"complete", "ping"}

\* Well-formed payloads a frame of an unknown type may carry.
UnknownCases ==
    CompleteFrames \cup {f \in SearchFrames : f.type = "search_results"}
        \cup {Frame("answer", RawObject([content |-> "He"]))}

\* C19: in every reachable state, handleEventData of either ChatApp called
\* with a well-formed payload under an event type it has no case for leaves
\* the application state as it is (no error is shown, so nothing was thrown
\* to a catch either).
C19_UnknownTypeIsDropped ==
    LET a == App
    IN  \A f \in UnknownCases :
            /\ \A type \in UnknownTypes \cup {"search_results", "search_result_update"} :
                    handleEventData(a, Frame(type, f.data)) = a
            /\ \A type \in UnknownTypes \cup {"tool_result"} :
                    handleEventData_R1(a, Frame(type, f.data)) = a

\* A complete frame, for which the dispatcher has no case, has just been
\* handled on an open stream whose turn displays an answer block.
C19_Witness ==
    /\ last.op = "frame" /\ last.type = "complete" /\ last.rs = "OPEN"
    /\ fragments # <<>>
    /\ Count(TurnElements, "ai-message") = 1
    /\ ~TurnFailed

\* C20: handleSendMessage with a non-empty message leaves the reference
\* list empty.
C20_SubmitClearsReferences ==
    [][(last'.op = "send" /\ last'.s # 0) => referenceCards' = <<>>]_vars

\* C21: the request_ids of two turns of one client differ, whenever the
\* two were submitted (the same clock millisecond included).
C21_RequestIdsDiffer ==
    \A s, t \in Streams :
        (s # t /\ requestTime[s] # 0 /\ requestTime[t] # 0)
            => request_id(requestTime[s]) # request_id(requestTime[t])

\* The failure is on display, in the answer area or in the reference area.
FailureSurfaced == TurnFailed \/ Count(referenceCards, "error") > 0

\* C22: a search_results frame whose payload has status 'error', handled on
\* an open stream, puts the failure on display, and an answer fragment that
\* follows it on that stream is not appended to this.currentAnswer.
C22_SearchErrorFailsTurn ==
    [][/\ (last'.op = "frame" /\ last'.kind = "search-error" /\ last'.rs = "OPEN")
            => FailureSurfaced'
       /\ (/\ last.op = "frame" /\ last.kind = "search-error" /\ last.rs = "OPEN"
           /\ last'.op = "frame" /\ last'.kind = "fragment" /\ last'.s = last.s)
            => currentAnswer' = currentAnswer]_vars

\* min(1, max(0, progress)), progress given in thousandths.
Clamp(progress) ==
    IF progress < 0 THEN 0 ELSE IF progress > 1000 THEN 1000 ELSE progress

\* C23: after a fetch_progress status frame handled on an open stream, the
\* percentage shown is within 0..100 and is round(100 * clamp(progress)) of
\* the frame's progress.
C23_ProgressIsClamped ==
    [][(last'.op = "frame" /\ last'.kind = "fetch_progress" /\ last'.rs = "OPEN")
        => /\ progressPct' \in 0..100
           /\ \E f \in FramesOf(profile) :
                /\ Kind(f) = "fetch_progress"
                /\ progressPct' = roundPercent(Clamp(f.data.obj.progress))]_vars

\* C24: after a fetch_completed (or parsing_completed) status frame handled
\* on an open stream, the progress indicator is not shown and the answer
\* area's status reads 'organizing information'.
C24_CompletedFetchHidesProgress ==
    [][(/\ last'.op = "frame" /\ last'.rs = "OPEN"
        /\ last'.kind \in {"fetch_completed", "parsing_completed"})
        => /\ ~progressVisible'
           /\ QuerySelector(answerContent', "loading") # 0
           /\ answerContent'[QuerySelector(answerContent', "loading")].text = "organizing"]_vars

\* C25: a staggered callback puts the card of the first entry not yet shown
\* of one pending batch after the cards already there, and the entries of
\* that batch still to come are the rest of its array, in the array's order;
\* every other step leaves the entries shown as they are, in their order, or
\* removes them all.
C25_CardsKeepBatchOrder ==
    [][LET old == Entries(referenceCards)
           new == Entries(referenceCards')
       IN  IF last'.op = "timer"
           THEN \E b \in 1..Len(timers) :
                    LET items == timers[b].items
                    IN  /\ new = Append(old, new[Len(new)])
                        /\ new[Len(new)].title = Get(Head(items), "title")
                        /\ new[Len(new)].id \in {"result-" \o ToString(timers[b].index),
                                                 "paper-" \o ToString(timers[b].index)}
                        /\ IF Len(items) = 1 THEN Len(timers') = Len(timers) - 1
                           ELSE /\ Len(timers') = Len(timers)
                                /\ timers'[b].items = Tail(items)
           ELSE new = old \/ new = <<>>]_vars

\* The two entries of a batch are shown, in the batch's order, the second
\* revealed by the callback that has just run.
C25_Witness ==
    /\ last.op = "timer"
    /\ batch = <<"a", "b">>
    /\ Links(Entries(referenceCards)) = <<"a", "b">>
    /\ timers = <<>>

\* The first turn's stream has handled the five frames of Scenario A, in
\* their order, and the staggered callbacks have run.
ScenarioAProcessed ==
    /\ profile = "scenario-a"
    /\ turns = 1
    /\ cursor[1] = Len(ScenarioA)
    /\ phase[1] = "completed"
    /\ fragments = <<"He", "llo">>
    /\ timers = <<>>

\* C26: once the frames of Scenario A have been processed, the stream is
\* closed, the reference list is the single entry with link 'a' and title
\* 'T1', and this.currentAnswer is 'Hello'.
C26_ScenarioA ==
    ScenarioAProcessed
        => /\ readyState[1] = "CLOSED"
           /\ currentAnswer = "Hello"
           /\ Len(referenceCards) = 1
           /\ referenceCards[1].cls = "reference-card"
           /\ referenceCards[1].link = "a"
           /\ referenceCards[1].title = "T1"

\* Scenario A has been processed, the complete frame last (the entry's card
\* was revealed before it).
C26_Witness ==
    /\ ScenarioAProcessed
    /\ last.op = "frame" /\ last.type = "complete" /\ last.rs = "OPEN"

\* The result text on the card handleToolResult adds for a generic tool
\* that answers with `text`.
ShownFor(a, text) ==
    LET cards == handleToolResult(a, [tool_name |-> "calc", result |-> JsText(text)]).referenceCards
    IN  cards[Len(cards)].text

\* C27: in every state of a run whose generic tools answer with long texts,
\* a result of more than 1000 characters is shown as its first 1000
\* characters followed by '...', a result of at most 1000 characters is
\* shown as it is, and no more than 1003 characters are shown.
C27_GenericOutputIsTruncated ==
    profile = "long" =>
        LET a == App
        IN  \A text \in LongTexts \cup {"4", Repeat("x", 1200)} :
                LET shown == ShownFor(a, text)
                IN  /\ Len(text) > 1000 => shown = SubSeq(text, 1, 1000) \o "..."
                    /\ Len(text) <= 1000 => shown = text
                    /\ Len(shown) <= 1003

\* The cards of a result of 1000 characters and of a longer one are on
\* display, the second cut to 1000 characters and the marker.
C27_Witness ==
    /\ last.op = "frame" /\ last.kind = "tool" /\ last.rs = "OPEN"
    /\ Len(referenceCards) = 2
    /\ Len(referenceCards[1].text) = 1000
    /\ Len(referenceCards[2].text) = 1003

\* C28: handleSendMessage with an empty or whitespace-only message creates
\* no stream and makes no request, and leaves this.currentAnswer, the answer
\* area and the reference area as they are.
C28_BlankMessageIsIgnored ==
    [][(last'.op = "send" /\ last'.blank)
        => /\ readyState' = readyState
           /\ turns' = turns
           /\ requestTime' = requestTime
           /\ currentAnswer' = currentAnswer
           /\ Display' = Display
           /\ timers' = timers]_vars

\* A whitespace-only message has been sent while the turn's stream is open
\* and a fragment of its answer is displayed.
C28_Witness ==
    /\ last.op = "send" /\ last.blank
    /\ turns > 0 /\ readyState[turns] = "OPEN"
    /\ currentAnswer = "He"
    /\ Count(TurnElements, "ai-message") = 1

\* C29: in the search-toggle ChatApp, a frame whose payload does not parse,
\* or parses to null, leaves the answer area (error display included) and
\* this.currentAnswer as they are, and no exception leaves its listener.
C29_MalformedFrameIsAbsorbed_R3 ==
    [][(last'.op = "frame" /\ Revision(profile) = 3 /\ last'.kind = "malformed")
        => /\ ~last'.threw
           /\ answerContent' = answerContent
           /\ currentAnswer' = currentAnswer]_vars

\* C30: an answer frame whose payload has status 'error', handled on an
\* open stream, leaves this.currentAnswer as it is, content in the payload
\* or not, and the answer area is what showError makes of the payload.
C30_AnswerErrorIsShown ==
    [][(last'.op = "frame" /\ last'.kind = "answer-error" /\ last'.rs = "OPEN")
        => /\ currentAnswer' = currentAnswer
           /\ TurnFailed'
           /\ \E f \in FramesOf(profile) :
                /\ Kind(f) = "answer-error"
                /\ answerContent' = showError(App, f.data.obj).answerContent
                /\ answerContent'[Len(answerContent')].text = f.data.obj.error]_vars

\* An answer frame with status 'error' and content has been handled after a
\* fragment: the buffer holds the fragment only and the error is displayed.
C30_Witness ==
    /\ last.op = "frame" /\ last.kind = "answer-error" /\ last.rs = "OPEN"
    /\ currentAnswer = "He"
    /\ fragments = <<"He">>
    /\ TurnFailed

\* C31: handleSendMessage with a non-empty message while this.toolOptions is
\* not set creates no stream and leaves the turn with an error displayed and
\* no indicator; and no frame is handled on a stream that was not created.
C31_NoToolsNoStream ==
    [][/\ (/\ last'.op = "send" /\ ~last'.blank
           /\ Revision(profile) # 3 /\ toolOptions # "set")
            => /\ readyState'[last'.s] = "none"
               /\ TurnFailed'
               /\ QuerySelector(answerContent', "loading") = 0
               /\ currentAnswer' = ""
       /\ last'.op = "frame" => readyState[last'.s] # "none"]_vars

\* A second message has just been submitted before the tools were loaded:
\* neither turn has a stream, and an error is displayed for the second.
C31_Witness ==
    /\ last.op = "send" /\ ~last.blank
    /\ toolOptions = "undefined"
    /\ turns = 2
    /\ readyState = [s \in Streams |-> "none"]
    /\ TurnFailed

\* The tools whose results are lists of reference entries.
SearchTools == {"search_web", "search_arxiv"}

\* The generic tool-result cards of the reference area, in display order.
ToolCards(cards) == SelectSeq(cards, LAMBDA c : c.cls = "tool-result-card")

\* C32: a generic tool_result handled on an open stream leaves the reference
\* entries displayed where they are, and a search_web or search_arxiv
\* tool_result leaves the generic tool-result cards displayed where they are.
C32_ToolResultsKeepOtherCards ==
    [][(last'.op = "frame" /\ last'.kind = "tool" /\ last'.rs = "OPEN")
        => IF last'.tool \in SearchTools
           THEN ToolCards(referenceCards') = ToolCards(referenceCards)
           ELSE Entries(referenceCards') = Entries(referenceCards)]_vars

\* C32, as the code has it: a generic tool_result puts its card after the
\* tool-result cards displayed, and when none is displayed it first removes
\* everything the reference area holds; a search_web or search_arxiv
\* tool_result removes everything the reference area holds, tool-result
\* cards included.
C32_ToolResultsReplaceOtherCards ==
    [][(last'.op = "frame" /\ last'.kind = "tool" /\ last'.rs = "OPEN")
        => IF last'.tool \in SearchTools
           THEN ToolCards(referenceCards') = <<>> /\ Entries(referenceCards') = <<>>
           ELSE /\ Len(referenceCards') > 0
                /\ referenceCards'[Len(referenceCards')].cls = "tool-result-card"
                /\ referenceCards'[Len(referenceCards')].title = last'.tool
                /\ SubSeq(referenceCards', 1, Len(referenceCards') - 1) =
                        IF ToolCards(referenceCards) = <<>> THEN <<>>
                        ELSE referenceCards]_vars

\* The entry of a search batch had been revealed, and the result of a
\* generic tool, just handled, is the only card left.
C32_Witness ==
    /\ last.op = "frame" /\ last.kind = "tool" /\ last.rs = "OPEN" /\ last.tool = "calc"
    /\ batch = <<"a">> /\ timers = <<>>
    /\ Len(referenceCards) = 1
    /\ referenceCards[1].cls = "tool-result-card"

\* The links a search_result_update may name.
UpdateLinks == {"a", "n"}

\* C33: in every reachable state of the tool-based ChatApp, updateSearchResult
\* called with a result whose link no displayed entry has schedules exactly
\* one card, for that link, and leaves the entries displayed in place.
C33_NewLinkAddsOneCard ==
    LET a == App
    IN  \A l \in UpdateLinks :
            (/\ Revision(profile) = 2
             /\ \A i \in 1..Len(Entries(a.referenceCards)) :
                    Entries(a.referenceCards)[i].link # l)
                => LET r == updateSearchResult(a, [result |-> [link |-> l, title |-> "N",
                                                               content |-> "new"]])
                   IN  /\ Entries(r.referenceCards) = Entries(a.referenceCards)
                       /\ Len(r.timers) = Len(a.timers) + 1
                       /\ Links(r.timers[Len(r.timers)].items) = <<l>>

\* C34: the error text displayed is the string showError was given (by
\* onerror's connection-lost and connection-error paths and by the catch of
\* handleSendMessage), and the error field of the object of an error frame.
C34_ErrorTextIsSurfaced ==
    [][LET shown == answerContent'[Len(answerContent')]
       IN  /\ (last'.op = "onerror" /\ answerContent' # answerContent)
                => /\ shown.cls = "error"
                   /\ shown.text = IF last'.rs = "CLOSED" THEN "connection lost, retry"
                                   ELSE "connection error, retry"
           /\ (/\ last'.op = "send" /\ ~last'.blank
               /\ Revision(profile) # 3 /\ toolOptions # "set")
                => shown.cls = "error" /\ shown.text = "error: not iterable"
           /\ (last'.op = "frame" /\ last'.kind = "error" /\ last'.rs = "OPEN")
                => /\ shown.cls = "error"
                   /\ \E f \in ErrorFrames : shown.text = f.data.obj.error]_vars

\* C35: a frame of a stream the client has closed, handed to its listener
\* (of either main.js ChatApp), changes neither this.currentAnswer nor what
\* is displayed, schedules nothing, and leaves the stream closed.
C35_ClosedStreamFramesAreDropped ==
    [][(last'.op = "frame" /\ last'.rs = "CLOSED" /\ Revision(profile) # 3)
        => /\ currentAnswer' = currentAnswer
           /\ Display' = Display
           /\ timers' = timers
           /\ readyState' = readyState]_vars

\* The stream was closed on its complete frame with one fragment received,
\* and an answer fragment of that stream has just been handed to the listener.
C35_Witness ==
    /\ last.op = "frame" /\ last.rs = "CLOSED" /\ last.kind = "fragment"
    /\ Revision(profile) = 2
    /\ phase[last.s] = "completed"
    /\ last.s = turns
    /\ currentAnswer = "He"
    /\ fragments = <<"He">>

\* C36: onerror of the main.js ChatApps running while the browser reconnects
\* (readyState CONNECTING) leaves this.currentAnswer and what is displayed as
\* they are, the stream still reconnecting; and a fragment handled on an open
\* stream, after a reconnection as before it, is appended to what
\* this.currentAnswer holds.
C36_ReconnectKeepsAnswer ==
    [][/\ (last'.op = "onerror" /\ last'.rs = "CONNECTING" /\ Revision(profile) # 3)
            => /\ currentAnswer' = currentAnswer
               /\ Display' = Display
               /\ readyState' = readyState
       /\ (last'.op = "frame" /\ last'.kind = "fragment" /\ last'.rs = "OPEN")
            => /\ \E f \in FramesOf(profile) :
                    IsFragment(f) /\ currentAnswer' = currentAnswer \o f.data.obj.content
               /\ fragments' # <<>>
               /\ currentAnswer' =
                    currentAnswer \o fragments'[Len(fragments')]]_vars

\* onerror has just run for a reconnection of the turn's stream, after the
\* first fragment: the fragment is held and displayed, and no error is shown.
C36_Witness ==
    /\ last.op = "onerror" /\ last.rs = "CONNECTING" /\ last.s = turns
    /\ readyState[turns] = "CONNECTING"
    /\ fragments = <<"He">> /\ currentAnswer = "He"
    /\ Count(TurnElements, "ai-message") = 1
    /\ ~TurnFailed

\* C37: in the search-toggle ChatApp, a click on the toggle while the turn's
\* stream is open does not change what handling a search_results frame of
\* that turn does.
C37_ToggleFixedAtSubmission_R3 ==
    [][(last'.op = "toggle" /\ turns > 0 /\ readyState[turns] = "OPEN")
        => \A f \in ToggleFrames :
                f.type = "search_results"
                    => handleEventData_R3(App', f, searchToggle')
                            = handleEventData_R3(App, f, searchToggle)]_vars

\* The texts of at most n characters made of a letter and of the marker's
\* character.
RECURSIVE Texts(_)
Texts(n) ==
    IF n = 0 THEN {""}
    ELSE LET shorter == Texts(n - 1)
         IN  shorter \cup {t \o c : t \in shorter, c \in {"a", "."}}

\* For every text of at most MaxContentLen characters (and for missing
\* content) and every maxLength up to one more: truncating the truncated text
\* changes nothing, and empty or missing content gives ''.
TruncateIsIdempotent ==
    \A c \in Texts(MaxContentLen) \cup {Undef}, n \in 0..(MaxContentLen + 1) :
        /\ truncateContent(truncateContent(c, n), n) = truncateContent(c, n)
        /\ c \in {"", Undef} => truncateContent(c, n) = ""

\* C38: truncateContent is idempotent and returns '' for empty or missing
\* content; in particular the text of every tool-result card and the content
\* of every reference card on display is not changed by truncating it again.
C38_TruncateContentIsIdempotent ==
    /\ TruncateIsIdempotent
    /\ \A i \in 1..Len(referenceCards) :
        /\ referenceCards[i].cls = "tool-result-card"
            => truncateContent(referenceCards[i].text, GenericMaxLength)
                    = referenceCards[i].text
        /\ referenceCards[i].cls = "reference-card"
            => truncateContent(referenceCards[i].content, DefaultMaxLength)
                    = referenceCards[i].content

\* A generic tool's result of more than 1000 characters is on display, cut
\* and marked, alone in the reference area.
C38_Witness ==
    /\ Len(referenceCards) = 1
    /\ referenceCards[1].cls = "tool-result-card"
    /\ Len(referenceCards[1].text) = 1003
    /\ SubSeq(referenceCards[1].text, 1001, 1003) = "..."

====
